---- MODULE Spec2Model ----
(***************************************************************************)
(* The MKS Wi-Fi protocol driver (core/driver/mkswifi.py): one caller      *)
(* using one MKSPrinter over one TCP connection to a device that answers   *)
(* each command with zero, one or two reply lines, on time or late.        *)
(*                                                                         *)
(* Text is modelled as sequences of one-character strings, so that strip,  *)
(* lower, startswith, format and the reply patterns are computed and not   *)
(* assumed.                                                                *)
(***************************************************************************)
EXTENDS Integers, Sequences, FiniteSets, TLC

(***************************************************************************)
(* Bounds of the exploration.                                              *)
(***************************************************************************)
\* public operations (send, poll, upload_gcode) started in one behaviour
MaxOps == 2
\* reply lines the device has sent and the driver has not yet consumed
MaxRx == 1
\* lines of the longest source file offered to upload_gcode
MaxFileLines == 2
\* the configured read_timeout of the driver, in clock ticks
ReadTimeout == 1

\* HTTP requests the server handles at a time, and in all
MaxHandlers == 2

MaxRequests == 3

(***************************************************************************)
(* Characters and the str methods the driver uses.                         *)
(***************************************************************************)
Uppers == <<"A","B","C","D","E","F","G","H","I","J","K","L","M",
            "N","O","P","Q","R","S","T","U","V","W","X","Y","Z">>

Lowers == <<"a","b","c","d","e","f","g","h","i","j","k","l","m",
            "n","o","p","q","r","s","t","u","v","w","x","y","z">>

Digits == <<"0","1","2","3","4","5","6","7","8","9">>

Range(s) == {s[i] : i \in DOMAIN s}

\* str.isspace(): the ASCII whitespace str.strip() removes and \s matches
Space == {" ", "\t", "\n", "\r", "\f"}

\* \d
Digit == Range(Digits)

\* \w
Word == Range(Uppers) \cup Range(Lowers) \cup Digit \cup {"_"}

\* a byte that is not valid UTF-8; bytes.decode(errors="ignore") drops it
BadByte == "xFF"

decode(raw) == SelectSeq(raw, LAMBDA b : b # BadByte)

LowerChar(c) ==
  IF c \in Range(Uppers)
    THEN Lowers[CHOOSE i \in DOMAIN Uppers : Uppers[i] = c]
    ELSE c

lower(s) == [i \in DOMAIN s |-> LowerChar(s[i])]

startswith(s, p) == Len(s) >= Len(p) /\ SubSeq(s, 1, Len(p)) = p

\* index of the first character of s at or after i that is not in class cls
\* (Len(s) + 1 when there is none)
RECURSIVE SpanEnd(_, _, _)
SpanEnd(s, i, cls) ==
  IF i <= Len(s) /\ s[i] \in cls THEN SpanEnd(s, i + 1, cls) ELSE i

\* index of the last character of s that is not whitespace (0 when none)
RECURSIVE LastInk(_, _)
LastInk(s, j) ==
  IF j >= 1 /\ s[j] \in Space THEN LastInk(s, j - 1) ELSE j

rstrip(s) == SubSeq(s, 1, LastInk(s, Len(s)))

strip(s) == SubSeq(s, SpanEnd(s, 1, Space), LastInk(s, Len(s)))

\* s[:n]
Truncate(s, n) == SubSeq(s, 1, IF Len(s) < n THEN Len(s) ELSE n)

\* the value of a run of decimal digits, as int() reads it
DigitVal(c) == (CHOOSE i \in DOMAIN Digits : Digits[i] = c) - 1

RECURSIVE int(_)
int(ds) ==
  IF ds = <<>> THEN 0
  ELSE 10 * int(SubSeq(ds, 1, Len(ds) - 1)) + DigitVal(ds[Len(ds)])

(***************************************************************************)
(* Wire texts: the G-codes, the line terminator, the reply tokens.         *)
(***************************************************************************)
CRLF == <<"\r", "\n">>

OkToken == <<"o", "k">>

ErrorMarker == <<"e", "r", "r", "o", "r">>

NotConnected == <<"N","o","t"," ","c","o","n","n","e","c","t","e","d">>

ConnectionLost == <<"C","o","n","n","e","c","t","i","o","n"," ","l","o","s","t">>

TEMP_QUERY == <<"M", "9", "9", "1">>

PROGRESS == <<"M", "2", "7">>

ELAPSED == <<"M", "9", "9", "2">>

\* GCodes.STATE (STATE is a reserved word of TLA+)
STATE_QUERY == <<"M", "9", "9", "7">>

\* "M28 {name}": the placeholder is one element of the template
SD_BEGIN == <<"M", "2", "8", " ", "{name}">>

SD_END == <<"M", "2", "9">>

\* the firmware's line limit used by upload_gcode: line.rstrip()[:127]
LineLimit == 127

SD_SELECT == <<"M", "2", "3", " ", "{name}">>

SD_START == <<"M", "2", "4">>

SD_PAUSE == <<"M", "2", "5">>

SD_ABORT == <<"M", "2", "6">>

\* str.format(name=...): every {name} placeholder is replaced by the name
RECURSIVE format(_, _)
format(t, name) ==
  IF t = <<>> THEN <<>>
  ELSE (IF Head(t) = "{name}" THEN name ELSE <<Head(t)>>) \o format(Tail(t), name)

(***************************************************************************)
(* The reply patterns (re.search: leftmost match, greedy quantifiers).     *)
(***************************************************************************)
NoMatch == [ok |-> FALSE, g |-> <<>>]

LitAt(s, i, lit) ==
  i + Len(lit) - 1 <= Len(s) /\ SubSeq(s, i, i + Len(lit) - 1) = lit

\* <code>\s+(<cls>+) tried at position i
ArgGroup(s, a, b, c) ==
  IF b > a /\ c > b THEN [ok |-> TRUE, g |-> <<SubSeq(s, b, c - 1)>>] ELSE NoMatch

ArgFrom(s, a, b, cls) == ArgGroup(s, a, b, SpanEnd(s, b, cls))

CodeArgAt(s, i, code, cls) ==
  IF LitAt(s, i, code)
    THEN ArgFrom(s, i + Len(code), SpanEnd(s, i + Len(code), Space), cls)
    ELSE NoMatch

RECURSIVE SearchCodeArg(_, _, _, _)
SearchCodeArg(s, i, code, cls) ==
  IF i > Len(s) THEN NoMatch
  ELSE IF CodeArgAt(s, i, code, cls).ok THEN CodeArgAt(s, i, code, cls)
  ELSE SearchCodeArg(s, i + 1, code, cls)

\* M27\s+(\d+)
PROG_RE(s) == SearchCodeArg(s, 1, PROGRESS, Digit)

\* M992\s+([\d:]+)
TIME_RE(s) == SearchCodeArg(s, 1, ELAPSED, Digit \cup {":"})

\* M997\s+(\w+)
STATE_RE(s) == SearchCodeArg(s, 1, STATE_QUERY, Word)

NoPair == [ok |-> FALSE, g |-> <<>>, end |-> 0]

\* \.?\d* tried at position a: the index after the match
FractionEnd(s, a) ==
  SpanEnd(s, IF a <= Len(s) /\ s[a] = "." THEN a + 1 ELSE a, Digit)

\* NumEnd for the pattern \d+, which reads no decimal point
NumEnd_integer(s, i) ==
  IF SpanEnd(s, i, Digit) = i THEN 0 ELSE SpanEnd(s, i, Digit)

\* \d+\.?\d* tried at position i: the index after the match, 0 when no digit
NumEnd(s, i) ==
  IF SpanEnd(s, i, Digit) = i THEN 0 ELSE FractionEnd(s, SpanEnd(s, i, Digit))

\* /(\d+\.?\d*) tried at position e1: the index after the match, 0 when none
SlashNumEnd(s, e1) ==
  IF e1 > 0 /\ e1 <= Len(s) /\ s[e1] = "/" THEN NumEnd(s, e1 + 1) ELSE 0

PairGroups(s, i, e1, e2) ==
  IF e2 > 0
    THEN [ok |-> TRUE, g |-> <<SubSeq(s, i, e1 - 1), SubSeq(s, e1 + 1, e2 - 1)>>,
          end |-> e2]
    ELSE NoPair

PairFrom(s, i, e1) == PairGroups(s, i, e1, SlashNumEnd(s, e1))

\* (\d+\.?\d*)/(\d+\.?\d*) tried at position i
PairAt(s, i) == PairFrom(s, i, NumEnd(s, i))

\* T:\s*(\d+\.?\d*)/(\d+\.?\d*) tried at position i
HotAt(s, i) ==
  IF LitAt(s, i, <<"T", ":">>) THEN PairAt(s, SpanEnd(s, i + 2, Space)) ELSE NoPair

\* B:\s*(\d+\.?\d*)/(\d+\.?\d*) tried at position b
BedAt(s, b) ==
  IF LitAt(s, b, <<"B", ":">>) THEN PairAt(s, SpanEnd(s, b + 2, Space)) ELSE NoPair

Largest(S) == CHOOSE x \in S : \A y \in S : y <= x

Smallest(S) == CHOOSE x \in S : \A y \in S : x <= y

\* .*B:... after the hotend pair: the greedy .* takes the last B: after which
\* the rest still matches
TempGroups(s, hot, beds) ==
  IF beds = {} THEN NoMatch
  ELSE [ok |-> TRUE, g |-> hot.g \o BedAt(s, Largest(beds)).g]

TempFrom(s, hot) ==
  IF hot.ok THEN TempGroups(s, hot, {b \in hot.end .. Len(s) : BedAt(s, b).ok})
  ELSE NoMatch

\* the whole pattern tried at position i
TempAt(s, i) == TempFrom(s, HotAt(s, i))

TempFirst(s, starts) ==
  IF starts = {} THEN NoMatch ELSE TempAt(s, Smallest(starts))

\* T:\s*(\d+\.?\d*)/(\d+\.?\d*).*B:\s*(\d+\.?\d*)/(\d+\.?\d*)
TEMP_RE(s) == TempFirst(s, {i \in 1 .. Len(s) : TempAt(s, i).ok})

\* float() of a \d+\.?\d* token, as the decimal mant / 10^exp in lowest form
RECURSIVE DropZeros(_)
DropZeros(ds) ==
  IF ds # <<>> /\ ds[Len(ds)] = "0" THEN DropZeros(SubSeq(ds, 1, Len(ds) - 1)) ELSE ds

Decimal(whole, frac) == [mant |-> int(whole \o frac), exp |-> Len(frac)]

SplitAt(tok, dot) ==
  Decimal(SubSeq(tok, 1, dot - 1), DropZeros(SubSeq(tok, dot + 1, Len(tok))))

float(tok) == SplitAt(tok, SpanEnd(tok, 1, Digit))

(***************************************************************************)
(* The device: the raw lines it may send, and its answer to one command.   *)
(***************************************************************************)
OkLine == OkToken \o CRLF

BlankLine == CRLF

ErrText == <<"E","r","r","o","r",":","x">>

ErrLine == ErrText \o CRLF

TempLine ==
  <<"T",":","2","0","5",".","3","/","2","1","0",".","0"," ",
    "B",":","6","0",".","1","/","6","0",".","0">> \o CRLF

ProgLine == <<"M","2","7"," ","3","7">> \o CRLF

TimeLine == <<"M","9","9","2"," ","0","0",":","2","8",":","4","3">> \o CRLF

StateLine == <<"M","9","9","7"," ","P","R","I","N","T","I","N","G">> \o CRLF

ReplyLines == {OkLine, BlankLine, ErrLine, TempLine, ProgLine, TimeLine, StateLine}

\* the two-stage reply: the device answers a command with at most two lines
LinesPerCommand == 2

(***************************************************************************)
(* Values: outcomes of a call, dicts.                                      *)
(***************************************************************************)
NoRes == [kind |-> "none", type |-> "", val |-> <<>>]

Ret(v) == [kind |-> "ret", type |-> "", val |-> v]

Exc(t, msg) == [kind |-> "exc", type |-> t, val |-> msg]

EmptyDict == <<>>

Put(d, k, v) == (k :> v) @@ d

\* dt.datetime.now().isoformat(timespec="seconds"): some instant, never empty
Stamps == {<<"1","1",":","3","2",":","1","0">>, <<"1","1",":","3","2",":","1","1">>}

\* the commands a caller passes to send() directly
Commands == {PROGRESS, <<" ">> \o ELAPSED \o <<" ">>}

\* the source files a caller passes to upload_gcode: line i of a file
FileLine(i) ==
  <<"G", Digits[i + 1]>> \o (IF i % 2 = 1 THEN <<" ", "\n">> ELSE <<"\n">>)

FileName == <<"a", ".", "g">>

\* the path of a driver on which upload_gcode has not been called
NoPath == [name |-> <<>>, is_file |-> FALSE, lines |-> <<>>]

\* the file names a caller passes to start_print
FileNames == {FileName, <<"b">>}

\* a name of a file on the printer's storage
Stored(name) == [name |-> name, is_file |-> FALSE, lines |-> <<>>]

Paths ==
  {[name |-> FileName, is_file |-> FALSE, lines |-> <<>>]} \cup
  {[name |-> FileName, is_file |-> TRUE, lines |-> [i \in 1 .. n |-> FileLine(i)]] :
     n \in 0 .. MaxFileLines}

(***************************************************************************)
(* State.                                                                  *)
(***************************************************************************)
VARIABLES
  reader,    \* self.reader: "None" or "set"
  writer,    \* self.writer: "None" or "set"
  peer,      \* the address self.writer was connected to: "none", "env", "record"
  sock,      \* the transport behind reader/writer: "none", "open", "closed"
  latest,    \* self.latest
  wire,      \* every command line written to the connection, in order
  rx,        \* reply lines the device sent that no read has consumed yet, each
             \* with the index in wire of the command it answers (of) and
             \* whether that command's exchange has ended in a timeout (late)
  credit,    \* lines the device may still send in answer to the last command
  op,        \* the public operation running: "idle", "send", "poll", "upload",
             \* "start", "pause", "abort"
  io,        \* position inside send(): "idle", "write", "read1", "read2", "done"
  cmd,       \* the gcode argument of the running send()
  res,       \* outcome of the running send()
  waited,    \* ticks the pending read has waited
  heard,     \* the lines the running send() has read
  touts,     \* reads of the running (or last) send() that timed out
  q,         \* poll: number of the query in progress (1..4)
  fresh,     \* poll: the dict being assembled
  file,      \* upload_gcode, start_print: the path / file name argument of the
             \* running/last call
  idx,       \* upload_gcode: number of the line being sent; start_print:
             \* number of the command being sent
  phase,     \* upload_gcode: "begin" (M28), "line", "end" (M29 in finally)
  pend,      \* upload_gcode: the exception in flight while finally runs
  trail,     \* history of the running/last poll, start_print, pause or abort:
             \* how its exchanges were answered
  errline,   \* history of the running/last upload_gcode: the step whose reply
             \* was error-prefixed (-1 none, 0 the M28 command, k the k-th line);
             \* of start_print, pause, abort: the command (1, 2) whose reply was
  result,    \* outcome of the last public operation
  snapshot,  \* the dict the last poll returned
  mark,      \* Len(wire) when the running/last public operation began
  nops,      \* public operations started
  scope,     \* "async with driver": "in" inside the block, else "out"
  left,      \* what left the last "async with driver" statement
  app,       \* the FastAPI application: "down", "up", "failed", "stopped"
  lock,      \* app.state.printer_lock: the handler holding it, 0 when free
  bound,     \* the host/port the shared driver is bound to: "env" or "record"
  pc,        \* per handler: "out", "acquire", "write", "read", "sleep", "release"
  kind,      \* per handler: the route of its request, "status" or "dashboard"
  hq,        \* per handler: the query of its poll in progress (1..4)
  hres,      \* per handler: what its poll has got, "none", "data" or "exc"
  reqs       \* requests received

vars ==
  <<reader, writer, peer, sock, latest, wire, rx, credit, op, io, cmd, res, waited,
    heard, touts, q, fresh, file, idx, phase, pend, trail, errline, result, snapshot,
    mark, nops, scope, left, app, lock, bound, pc, kind, hq, hres, reqs>>

conn == <<reader, writer, peer, sock>>

sendv == <<io, cmd, res, waited, heard, touts>>

pollv == <<q, fresh, trail>>

uplv == <<file, idx, phase, pend, errline>>

\* the driver alone, and the server around the shared driver
scopev == <<scope, left>>

driverv ==
  <<latest, rx, credit, op, sendv, pollv, uplv, result, snapshot, mark, nops,
    scopev>>

serverv == <<app, lock, bound, pc, kind, hq, hres, reqs>>

Handlers == 1 .. MaxHandlers

NoResult == [op |-> "none", kind |-> "none", type |-> "", val |-> <<>>]

Outcome(o, r) == [op |-> o, kind |-> r.kind, type |-> r.type, val |-> r.val]

\* MKSPrinter.__init__: no connection, no snapshot
Init ==
  /\ reader = "None" /\ writer = "None" /\ sock = "none"
  /\ peer = "none"
  /\ latest = EmptyDict
  /\ wire = <<>> /\ rx = <<>> /\ credit = 0
  /\ op = "idle" /\ io = "idle" /\ cmd = <<>> /\ res = NoRes
  /\ waited = 0 /\ heard = <<>> /\ touts = 0
  /\ q = 0 /\ fresh = EmptyDict /\ trail = "none"
  /\ file = NoPath /\ idx = 0 /\ phase = "none" /\ pend = NoRes /\ errline = -1
  /\ result = NoResult /\ snapshot = EmptyDict /\ mark = 0 /\ nops = 0
  /\ scope = "out" /\ left = NoRes
  /\ app = "down" /\ lock = 0 /\ bound = "env" /\ reqs = 0
  /\ pc = [h \in Handlers |-> "out"]
  /\ kind = [h \in Handlers |-> "dashboard"]
  /\ hq = [h \in Handlers |-> 0]
  /\ hres = [h \in Handlers |-> "none"]

(***************************************************************************)
(* Connection management.                                                  *)
(***************************************************************************)
\* asyncio.open_connection either raises, leaving the driver as it was, or
\* returns a new reader/writer pair on a new connection
connect ==
  /\ UNCHANGED <<serverv, scopev>>
  /\ op = "idle"
  /\ \E up \in BOOLEAN :
       IF up
         THEN /\ reader' = "set" /\ writer' = "set" /\ sock' = "open"
              /\ peer' = bound
              /\ rx' = <<>> /\ credit' = 0
         ELSE UNCHANGED <<conn, rx, credit>>
  /\ UNCHANGED <<latest, wire, op, sendv, pollv, uplv, result, snapshot, mark, nops>>

\* closed for a close() that leaves the transport as it is
closed_never(w, s) == s

\* close(): "if self.writer: self.writer.close()", the transport afterwards
closed(w, s) == IF w # "None" THEN "closed" ELSE s

\* close() returns None whether or not there was a connection to close
close ==
  /\ UNCHANGED <<serverv, scopev>>
  /\ op = "idle"
  /\ sock' = closed(writer, sock)
  /\ result' = Outcome("close", Ret(<<>>))
  /\ UNCHANGED <<reader, writer, peer, latest, wire, rx, credit, op, sendv, pollv,
                 uplv, snapshot, mark, nops>>

(***************************************************************************)
(* Low-level I/O: _send_raw, _read_raw, _read_response, send.              *)
(***************************************************************************)
\* the caller calls a public operation
Enter ==
  /\ op = "idle"
  /\ ~(scope = "in" /\ result.kind = "exc")
  /\ nops < MaxOps
  /\ nops' = nops + 1
  /\ mark' = Len(wire)
  /\ snapshot' = EmptyDict

\* a public operation begins
Begin(o) ==
  /\ Enter
  /\ op' = o
  /\ result' = NoResult

\* a public operation raises e before its first await
Raise(o, e) ==
  /\ Enter
  /\ op' = "idle"
  /\ result' = Outcome(o, e)
  /\ UNCHANGED sendv

\* a public operation ends with outcome r
Finish(r) ==
  /\ op' = "idle"
  /\ result' = Outcome(op, r)
  /\ io' = "idle" /\ cmd' = <<>> /\ res' = NoRes
  /\ waited' = 0 /\ heard' = <<>>
  /\ UNCHANGED touts

\* send(gcode) is entered
StartSend(gcode) ==
  /\ cmd' = gcode
  /\ io' = "write"
  /\ res' = NoRes
  /\ waited' = 0 /\ heard' = <<>> /\ touts' = 0

\* _send_raw: the line put on the wire for gcode
WireText(gcode) == strip(gcode) \o CRLF

\* SendRawFails without the "if not self.writer" guard
SendRawFails_unguarded ==
  IF sock = "closed" THEN Exc("ConnectionResetError", ConnectionLost) ELSE NoRes

\* SendRawFails for a transport that still takes data after close()
SendRawFails_closed_unnoticed ==
  IF writer = "None" THEN Exc("RuntimeError", NotConnected) ELSE NoRes

\* _send_raw: what stops the write: no writer (RuntimeError), or a writer whose
\* transport was closed (write() drops the data, drain() raises)
SendRawFails ==
  IF writer = "None" THEN Exc("RuntimeError", NotConnected)
  ELSE IF sock = "closed" THEN Exc("ConnectionResetError", ConnectionLost)
  ELSE NoRes

\* _read_raw, before it awaits: no reader is an error
ReadRawFails ==
  IF reader = "None" THEN Exc("RuntimeError", NotConnected) ELSE NoRes

\* _read_raw: the text of a line read
read_raw(raw) == strip(decode(raw))

\* first_line with the error test made on the line as received, not lowered
first_line_cased(text) ==
  IF startswith(text, ErrorMarker) THEN [io |-> "done", res |-> Exc("RuntimeError", text)]
  ELSE IF text = OkToken THEN [io |-> "read2", res |-> NoRes]
  ELSE [io |-> "done", res |-> Ret(text)]

\* _read_response, on its first line: raise, read a second line, or return it
first_line(text) ==
  IF startswith(lower(text), ErrorMarker) THEN [io |-> "done", res |-> Exc("RuntimeError", text)]
  ELSE IF text = OkToken THEN [io |-> "read2", res |-> NoRes]
  ELSE [io |-> "done", res |-> Ret(text)]

\* second_line without the test for an empty or "ok" second line
second_line_any(text) == Ret(text)

\* _read_response, on the line after "ok"
second_line(text) ==
  IF text # <<>> /\ text # OkToken THEN Ret(text) ELSE Ret(<<>>)

\* second_timeout returning the first line instead of the empty payload
second_timeout_first == Ret(OkToken)

\* _read_response: asyncio.TimeoutError on the second read is caught
second_timeout == Ret(<<>>)

\* first_timeout with send() lacking its except clause
first_timeout_uncaught == Exc("TimeoutError", <<>>)

\* send: asyncio.TimeoutError out of _read_response (the first read) is caught
first_timeout == Ret(<<>>)

\* _send_raw, then _read_response up to its first await
send_raw ==
  /\ UNCHANGED <<serverv, scopev>>
  /\ io = "write"
  /\ IF SendRawFails.kind = "exc"
       THEN /\ res' = SendRawFails
            /\ io' = "done"
            /\ UNCHANGED <<wire, credit>>
       ELSE /\ wire' = Append(wire, WireText(cmd))
            /\ credit' = LinesPerCommand
            /\ IF ReadRawFails.kind = "exc"
                 THEN res' = ReadRawFails /\ io' = "done"
                 ELSE res' = res /\ io' = "read1"
  /\ UNCHANGED <<conn, latest, rx, op, cmd, waited, heard, touts, pollv, uplv,
                 result, snapshot, mark, nops>>

\* the device sends one more line in answer to the last command it received;
\* the line reaches a read in time or stays pending until a later read
device_line ==
  /\ UNCHANGED <<serverv, scopev>>
  /\ sock = "open"
  /\ credit > 0
  /\ Len(rx) < MaxRx
  /\ credit' = credit - 1
  /\ \E raw \in ReplyLines :
       rx' = Append(rx, [raw |-> raw, of |-> Len(wire),
                         late |-> io \notin {"read1", "read2"} /\ touts > 0])
  /\ UNCHANGED <<conn, latest, wire, op, sendv, pollv, uplv, result, snapshot,
                 mark, nops>>

\* _read_response goes on as first_line decided
Classified(next) ==
  IF next.io = "read2" /\ ReadRawFails.kind = "exc"
    THEN res' = ReadRawFails /\ io' = "done"
    ELSE res' = next.res /\ io' = next.io

\* reader.readline() returns a line within the timeout
read_line ==
  /\ UNCHANGED <<serverv, scopev>>
  /\ io \in {"read1", "read2"}
  /\ rx # <<>>
  /\ rx' = Tail(rx)
  /\ heard' = Append(heard, Head(rx))
  /\ waited' = 0
  /\ IF io = "read1"
       THEN Classified(first_line(read_raw(Head(rx).raw)))
       ELSE res' = second_line(read_raw(Head(rx).raw)) /\ io' = "done"
  /\ UNCHANGED <<conn, latest, wire, credit, op, cmd, touts, pollv, uplv,
                 result, snapshot, mark, nops>>

\* time passes while a read waits
tick ==
  /\ UNCHANGED <<serverv, scopev>>
  /\ io \in {"read1", "read2"}
  /\ waited < ReadTimeout
  /\ waited' = waited + 1
  /\ UNCHANGED <<conn, latest, wire, rx, credit, op, io, cmd, res, heard, touts, pollv,
                 uplv, result, snapshot, mark, nops>>

\* asyncio.wait_for gives up on the read after read_timeout
timeout ==
  /\ UNCHANGED <<serverv, scopev>>
  /\ io \in {"read1", "read2"}
  /\ waited = ReadTimeout
  /\ touts' = touts + 1
  /\ waited' = 0
  /\ res' = IF io = "read1" THEN first_timeout ELSE second_timeout
  /\ io' = "done"
  /\ rx' = [i \in DOMAIN rx |->
             IF rx[i].of = Len(wire) THEN [rx[i] EXCEPT !.late = TRUE] ELSE rx[i]]
  /\ UNCHANGED <<conn, latest, wire, credit, op, cmd, heard, pollv, uplv,
                 result, snapshot, mark, nops>>

\* the caller awaits send(gcode)
send_call ==
  /\ UNCHANGED <<serverv, scopev>>
  /\ \E gcode \in Commands : Begin("send") /\ StartSend(gcode)
  /\ UNCHANGED <<conn, latest, wire, rx, credit, pollv, uplv>>

send_return ==
  /\ UNCHANGED <<serverv, scopev>>
  /\ op = "send" /\ io = "done"
  /\ Finish(res)
  /\ UNCHANGED <<conn, latest, wire, rx, credit, pollv, uplv, snapshot, mark, nops>>

(***************************************************************************)
(* poll.                                                                   *)
(***************************************************************************)
Queries == <<TEMP_QUERY, PROGRESS, ELAPSED, STATE_QUERY>>

\* the four "if m := ..._RE.search(payload): fresh[...] = ..." statements
temps(m, d) ==
  IF m.ok
    THEN Put(d, "temps", [T |-> float(m.g[1]), Tset |-> float(m.g[2]),
                          B |-> float(m.g[3]), Bset |-> float(m.g[4])])
    ELSE d

progress(m, d) == IF m.ok THEN Put(d, "progress", int(m.g[1])) ELSE d

elapsed(m, d) == IF m.ok THEN Put(d, "elapsed", m.g[1]) ELSE d

state(m, d) == IF m.ok THEN Put(d, "state", m.g[1]) ELSE d

\* parse trying all four patterns on the payload of every query
parse_any(n, payload, d) ==
  state(STATE_RE(payload),
        elapsed(TIME_RE(payload),
                progress(PROG_RE(payload), temps(TEMP_RE(payload), d))))

parse(n, payload, d) ==
  IF n = 1 THEN temps(TEMP_RE(payload), d)
  ELSE IF n = 2 THEN progress(PROG_RE(payload), d)
  ELSE IF n = 3 THEN elapsed(TIME_RE(payload), d)
  ELSE state(STATE_RE(payload), d)

\* stamped without the assignment of fresh["stamp"]
stamped_never(d, now) == d

\* "if fresh:" - the dict poll returns
stamped(d, now) == IF DOMAIN d # {} THEN Put(d, "stamp", now) ELSE d

\* store without the "if fresh:" guard
store_always(d, old) == d

\* "if fresh: self.latest = fresh"
store(d, old) == IF DOMAIN d # {} THEN d ELSE old

poll_call ==
  /\ UNCHANGED <<serverv, scopev>>
  /\ Begin("poll")
  /\ q' = 1
  /\ fresh' = EmptyDict
  /\ trail' = "none"
  /\ StartSend(Queries[1])
  /\ UNCHANGED <<conn, latest, wire, rx, credit, uplv>>

\* "if fresh: ...; time.sleep(seconds); return fresh" with d the dict assembled
PollEnd(d) ==
  /\ latest' = store(d, latest)
  /\ snapshot' = d
  /\ Finish(Ret(<<>>))
  /\ q' = 0 /\ fresh' = EmptyDict

\* a query's send() has returned and d is the dict with its field parsed
PollStep(d) ==
  IF q < Len(Queries)
    THEN /\ q' = q + 1
         /\ fresh' = d
         /\ StartSend(Queries[q + 1])
         /\ UNCHANGED <<latest, op, result, snapshot>>
    ELSE \E now \in Stamps : PollEnd(stamped(d, now))

\* PollRaised for a poll that catches the exception of a query and goes on
PollRaised_swallowed(e) == PollStep(fresh)

\* a query's send() has raised: poll has no try, so the exception leaves poll
\* before "if fresh:" and the queries after it are not sent
PollRaised(e) ==
  /\ Finish(e)
  /\ q' = 0 /\ fresh' = EmptyDict
  /\ UNCHANGED <<latest, snapshot>>

\* the reply the device gives to each query when it answers as documented
WellFormed == <<<<OkLine, TempLine>>, <<ProgLine>>, <<TimeLine>>, <<StateLine>>>>

\* how the exchange that just ended went
Answered ==
  IF touts = 0 /\ [i \in DOMAIN heard |-> heard[i].raw] = WellFormed[q] THEN "wellformed"
  ELSE IF touts = 1 /\ heard = <<>> THEN "silent"
  ELSE "mixed"

\* a query's send() has returned or raised
poll_next ==
  /\ UNCHANGED <<serverv, scopev>>
  /\ op = "poll" /\ io = "done"
  /\ trail' = IF trail \in {"none", Answered} THEN Answered ELSE "mixed"
  /\ IF res.kind = "exc"
       THEN PollRaised(res)
       ELSE PollStep(parse(q, res.val, fresh))
  /\ UNCHANGED <<conn, wire, rx, credit, uplv, mark, nops>>

(***************************************************************************)
(* upload_gcode.                                                           *)
(***************************************************************************)
\* error_reply without the test of the payload send() returned
error_reply_raised_only(r) == IF r.kind = "exc" THEN r ELSE NoRes

\* "if ack.lower().startswith("error"): raise RuntimeError(ack)"
error_reply(r) ==
  IF r.kind = "exc" THEN r
  ELSE IF startswith(lower(r.val), ErrorMarker) THEN Exc("RuntimeError", r.val)
  ELSE NoRes

\* "self.send(line.rstrip()[:127])"
line_gcode(line) == Truncate(rstrip(line), LineLimit)

\* does the exception raised by the M28 exchange pass through the try/finally
\* that sends M29?  It is raised before the try statement is entered
begin_in_try == FALSE

\* the finally clause: the exception that leaves upload_gcode, if any
after_finally(r, pending) ==
  IF r.kind = "exc" THEN r
  ELSE IF pending.kind = "exc" THEN pending
  ELSE Ret(<<>>)

\* IsMissing without the call of path.is_file()
IsMissing_unchecked(path) == FALSE

\* "if not path.is_file()"
IsMissing(path) == ~path.is_file

upload_call ==
  /\ UNCHANGED <<serverv, scopev>>
  /\ errline' = -1
  /\ \E path \in Paths :
       /\ file' = path
       /\ IF IsMissing(path)
            THEN /\ Raise("upload", Exc("FileNotFoundError", path.name))
                 /\ UNCHANGED <<idx, phase, pend>>
            ELSE /\ Begin("upload")
                 /\ idx' = 0
                 /\ phase' = "begin"
                 /\ pend' = NoRes
                 /\ StartSend(format(SD_BEGIN, path.name))
  /\ UNCHANGED <<conn, latest, wire, rx, credit, pollv>>

\* leave upload_gcode with outcome r
UploadExit(r) ==
  /\ Finish(r)
  /\ idx' = 0 /\ phase' = "none" /\ pend' = NoRes
  /\ UNCHANGED file

\* enter the finally clause with exception e in flight (NoRes: none)
UploadFinally(e) ==
  /\ phase' = "end"
  /\ pend' = e
  /\ StartSend(SD_END)
  /\ UNCHANGED <<file, idx, op, result>>

\* the exchange that just ended read an error-prefixed reply
ReplyIsError ==
  /\ touts = 0 /\ heard # <<>>
  /\ startswith(lower(strip(decode(heard[Len(heard)].raw))), ErrorMarker)

\* "for line in fp": send the next line, or fall out of the loop into finally
UploadLoop ==
  IF idx < Len(file.lines)
    THEN /\ idx' = idx + 1
         /\ phase' = "line"
         /\ StartSend(line_gcode(file.lines[idx + 1]))
         /\ UNCHANGED <<file, pend, op, result>>
    ELSE UploadFinally(NoRes)

\* UploadBegun without a test of the reply to M28
UploadBegun_unchecked(e) == UploadLoop

\* the M28 exchange is over, e the exception it ends in (NoRes: none)
UploadBegun(e) ==
  IF e.kind = "exc"
    THEN IF begin_in_try THEN UploadFinally(e) ELSE UploadExit(e)
    ELSE UploadLoop

\* UploadLineSent without the try/finally around the loop
UploadLineSent_no_finally(e) ==
  IF e.kind = "exc" THEN UploadExit(e) ELSE UploadLoop

\* the exchange of a line is over, e the exception it ends in (NoRes: none)
UploadLineSent(e) ==
  IF e.kind = "exc" THEN UploadFinally(e) ELSE UploadLoop

\* the send() of the current step of upload_gcode has returned or raised
upload_next ==
  /\ UNCHANGED <<serverv, scopev>>
  /\ op = "upload" /\ io = "done"
  /\ errline' = IF phase \in {"begin", "line"} /\ ReplyIsError THEN idx ELSE errline
  /\ CASE phase = "begin" -> UploadBegun(error_reply(res))
       [] phase = "line" -> UploadLineSent(error_reply(res))
       [] OTHER -> UploadExit(after_finally(res, pend))
  /\ UNCHANGED <<conn, latest, wire, rx, credit, pollv, snapshot, mark, nops>>

(***************************************************************************)
(* Print control: start_print, pause, abort.                               *)
(***************************************************************************)
\* how the exchange of a print-control command that just ended went
Acknowledged ==
  IF touts = 1 /\ heard = <<>> THEN "silent"
  ELSE IF heard # <<>> /\ heard[1].raw = OkLine /\ ~ReplyIsError THEN "acked"
  ELSE "mixed"

\* the history of a print-control helper after one more exchange
Trailed ==
  /\ trail' = IF trail \in {"none", Acknowledged} THEN Acknowledged ELSE "mixed"
  /\ errline' = IF errline = -1 /\ ReplyIsError THEN idx ELSE errline

\* "await self.send(...)" as a statement: the payload is dropped, an
\* exception passes through
awaited(r) == IF r.kind = "exc" THEN r ELSE NoRes

\* a helper that sends one command begins
Control(o, gcode) ==
  /\ Begin(o)
  /\ idx' = 1
  /\ trail' = "none" /\ errline' = -1
  /\ StartSend(gcode)
  /\ UNCHANGED <<conn, latest, wire, rx, credit, q, fresh, phase, pend>>

\* leave a print-control helper with the exception e, or normally
ControlExit(e) ==
  /\ Finish(IF e.kind = "exc" THEN e ELSE Ret(<<>>))
  /\ idx' = 0

\* StartCommands with the two statements of start_print exchanged
StartCommands_swapped(filename) == <<SD_START, format(SD_SELECT, filename)>>

\* the commands start_print sends, in the order of its statements
StartCommands(filename) == <<format(SD_SELECT, filename), SD_START>>

start_print_call ==
  /\ UNCHANGED <<serverv, scopev>>
  /\ \E filename \in FileNames :
       /\ file' = Stored(filename)
       /\ Control("start", StartCommands(filename)[1])

\* the send() of M23 or of M24 has returned or raised
start_print_next ==
  /\ UNCHANGED <<serverv, scopev>>
  /\ op = "start" /\ io = "done"
  /\ Trailed
  /\ IF awaited(res).kind = "none" /\ idx < Len(StartCommands(file.name))
       THEN /\ idx' = idx + 1
            /\ StartSend(StartCommands(file.name)[idx + 1])
            /\ UNCHANGED <<op, result>>
       ELSE ControlExit(awaited(res))
  /\ UNCHANGED <<conn, latest, wire, rx, credit, q, fresh, file, phase, pend,
                 snapshot, mark, nops>>

pause_call ==
  /\ UNCHANGED <<serverv, scopev, file>>
  /\ Control("pause", SD_PAUSE)

pause_return ==
  /\ UNCHANGED <<serverv, scopev>>
  /\ op = "pause" /\ io = "done"
  /\ Trailed
  /\ ControlExit(awaited(res))
  /\ UNCHANGED <<conn, latest, wire, rx, credit, q, fresh, file, phase, pend,
                 snapshot, mark, nops>>

abort_call ==
  /\ UNCHANGED <<serverv, scopev, file>>
  /\ Control("abort", SD_ABORT)

abort_return ==
  /\ UNCHANGED <<serverv, scopev>>
  /\ op = "abort" /\ io = "done"
  /\ Trailed
  /\ ControlExit(awaited(res))
  /\ UNCHANGED <<conn, latest, wire, rx, credit, q, fresh, file, phase, pend,
                 snapshot, mark, nops>>

(***************************************************************************)
(* The driver with one caller, and the device.                             *)
(***************************************************************************)
Next ==
  \/ connect
  \/ close
  \/ send_call
  \/ send_raw
  \/ device_line
  \/ read_line
  \/ tick
  \/ timeout
  \/ send_return
  \/ poll_call
  \/ poll_next
  \/ upload_call
  \/ upload_next
  \/ start_print_call
  \/ start_print_next
  \/ pause_call
  \/ pause_return
  \/ abort_call
  \/ abort_return

Spec == Init /\ [][Next]_vars

(***************************************************************************)
(* The HTTP server: one shared driver behind one lock, and the handlers of *)
(* the two routes that poll it, run as coroutines of one event loop.  An   *)
(* exchange is a write of the query and a read of its reply; what the      *)
(* device answers is one of data, silence (timeout), an error line.        *)
(***************************************************************************)
\* time.sleep() in poll blocks the event loop: no coroutine runs meanwhile
Blocked == \E h \in Handlers : pc[h] = "sleep"

\* the snapshot a poll with some parseable reply stores in latest
Polled == stamped(Put(EmptyDict, "progress", 37), CHOOSE now \in Stamps : TRUE)

\* lifespan, up to the yield: the driver is created and connected
startup ==
  /\ app = "down"
  /\ \E up \in BOOLEAN :
       IF up
         THEN /\ app' = "up"
              /\ reader' = "set" /\ writer' = "set" /\ sock' = "open"
              /\ peer' = bound
         ELSE /\ app' = "failed"
              /\ UNCHANGED conn
  /\ UNCHANGED <<wire, driverv, lock, bound, pc, kind, hq, hres, reqs>>

\* lifespan, after the yield: "finally: await printer.close()"
shutdown ==
  /\ app = "up"
  /\ \A h \in Handlers : pc[h] = "out"
  /\ app' = "stopped"
  /\ sock' = closed(writer, sock)
  /\ UNCHANGED <<reader, writer, peer, wire, driverv, lock, bound, pc, kind, hq, hres,
                 reqs>>

\* a request for GET /{pid}/status or GET / arrives; its handler reaches
\* "async with lock"
request(h) ==
  /\ app = "up" /\ ~Blocked
  /\ pc[h] = "out"
  /\ reqs < MaxRequests
  /\ reqs' = reqs + 1
  /\ \E k \in {"status", "dashboard"} : kind' = [kind EXCEPT ![h] = k]
  /\ pc' = [pc EXCEPT ![h] = "acquire"]
  /\ hq' = [hq EXCEPT ![h] = 0]
  /\ hres' = [hres EXCEPT ![h] = "none"]
  /\ UNCHANGED <<conn, wire, driverv, app, lock, bound>>

\* LockFree for a lock that lets every caller in
LockFree_unchecked == TRUE

\* asyncio.Lock: acquire() returns only while no other coroutine holds it
LockFree == lock = 0

\* the body of "async with lock" up to the first write of poll; the status
\* handler first rebinds the driver to the record of pid, and fails at once
\* when there is no such record
acquire(h) ==
  /\ ~Blocked
  /\ pc[h] = "acquire"
  /\ LockFree
  /\ lock' = h
  /\ \E found \in BOOLEAN :
       IF kind[h] = "status" /\ ~found
         THEN /\ pc' = [pc EXCEPT ![h] = "release"]
              /\ hres' = [hres EXCEPT ![h] = "exc"]
              /\ UNCHANGED <<bound, hq>>
         ELSE /\ bound' = IF kind[h] = "status" THEN "record" ELSE bound
              /\ pc' = [pc EXCEPT ![h] = "write"]
              /\ hq' = [hq EXCEPT ![h] = 1]
              /\ UNCHANGED hres
  /\ UNCHANGED <<conn, wire, driverv, app, kind, reqs>>

\* poll: _send_raw of the next query
write(h) ==
  /\ ~Blocked
  /\ pc[h] = "write"
  /\ wire' = Append(wire, WireText(Queries[hq[h]]))
  /\ pc' = [pc EXCEPT ![h] = "read"]
  /\ UNCHANGED <<conn, driverv, app, lock, bound, kind, hq, hres, reqs>>

\* poll after its fourth query: "if fresh: self.latest = fresh", then
\* time.sleep(seconds)
Paced(h, got) ==
  /\ pc' = [pc EXCEPT ![h] = "sleep"]
  /\ latest' = IF got = "data" THEN Polled ELSE latest
  /\ UNCHANGED hq

\* poll: _read_response of the query; an error line ends the poll
read(h) ==
  /\ ~Blocked
  /\ pc[h] = "read"
  /\ \E reply \in {"data", "silence", "error"} :
       IF reply = "error"
         THEN /\ pc' = [pc EXCEPT ![h] = "release"]
              /\ hres' = [hres EXCEPT ![h] = "exc"]
              /\ UNCHANGED <<hq, latest>>
         ELSE /\ hres' = [hres EXCEPT ![h] = IF reply = "data" THEN "data" ELSE @]
              /\ IF hq[h] < Len(Queries)
                   THEN /\ hq' = [hq EXCEPT ![h] = @ + 1]
                        /\ pc' = [pc EXCEPT ![h] = "write"]
                        /\ UNCHANGED latest
                   ELSE Paced(h, hres'[h])
  /\ UNCHANGED <<conn, wire, rx, credit, op, sendv, pollv, uplv, result, snapshot,
                 mark, nops, scopev, app, lock, bound, kind, reqs>>

\* time.sleep(seconds) is over and poll returns
wake(h) ==
  /\ pc[h] = "sleep"
  /\ pc' = [pc EXCEPT ![h] = "release"]
  /\ UNCHANGED <<conn, wire, driverv, app, lock, bound, kind, hq, hres, reqs>>

\* the handler leaves "async with lock" and answers the request
release(h) ==
  /\ ~Blocked
  /\ pc[h] = "release"
  /\ lock' = 0
  /\ pc' = [pc EXCEPT ![h] = "out"]
  /\ UNCHANGED <<conn, wire, driverv, app, bound, kind, hq, hres, reqs>>

ServerNext ==
  \/ startup
  \/ shutdown
  \/ \E h \in Handlers : request(h)
  \/ \E h \in Handlers : acquire(h)
  \/ \E h \in Handlers : write(h)
  \/ \E h \in Handlers : read(h)
  \/ \E h \in Handlers : wake(h)
  \/ \E h \in Handlers : release(h)

ServerSpec == Init /\ [][ServerNext]_vars

(***************************************************************************)
(* Scoped acquisition: the driver used only as "async with driver as p:".  *)
(***************************************************************************)
\* what __aexit__ returns: None, which is false, so that an exception of the
\* block is raised again after it
aexit_returns == FALSE

\* what leaves the with statement when its block ended with outcome r
after_with(r) ==
  IF r.kind = "exc" /\ ~aexit_returns THEN Exc(r.type, r.val) ELSE Ret(<<>>)

\* __aenter__: "await self.connect(); return self"; when connect raises the
\* block is not entered and __aexit__ is not called
aenter ==
  /\ op = "idle" /\ scope = "out"
  /\ \E up \in BOOLEAN :
       IF up
         THEN /\ reader' = "set" /\ writer' = "set" /\ sock' = "open"
              /\ peer' = bound
              /\ rx' = <<>> /\ credit' = 0
              /\ scope' = "in"
              /\ left' = NoRes
         ELSE /\ left' = Exc("OSError", <<>>)
              /\ UNCHANGED <<conn, rx, credit, scope>>
  /\ result' = NoResult
  /\ UNCHANGED <<latest, wire, op, sendv, pollv, uplv, snapshot, mark, nops, serverv>>

\* __aexit__: "await self.close()", run when the block is left, normally or
\* by an exception
aexit ==
  /\ op = "idle" /\ scope = "in"
  /\ sock' = closed(writer, sock)
  /\ scope' = "out"
  /\ left' = after_with(result)
  /\ UNCHANGED <<reader, writer, peer, latest, wire, rx, credit, op, sendv, pollv,
                 uplv, result, snapshot, mark, nops, serverv>>

ScopedNext ==
  \/ aenter
  \/ aexit
  \/ send_call
  \/ send_raw
  \/ device_line
  \/ read_line
  \/ tick
  \/ timeout
  \/ send_return
  \/ poll_call
  \/ poll_next
  \/ upload_call
  \/ upload_next
  \/ start_print_call
  \/ start_print_next
  \/ pause_call
  \/ pause_return
  \/ abort_call
  \/ abort_return

ScopedSpec == Init /\ [][ScopedNext]_vars

(***************************************************************************)
(* What the checks below read off the state.                               *)
(***************************************************************************)
\* the text of the i-th line the running send() has read
HeardText(i) == strip(decode(heard[i].raw))

IsErrorText(text) == startswith(lower(text), ErrorMarker)

\* reads the running send() has made: lines read and reads that timed out
Reads == Len(heard) + touts

\* the command lines the running/last public operation has written
Sent == SubSeq(wire, mark + 1, Len(wire))

\* a public operation has just returned or raised
Returned(o) == op = "idle" /\ result.op = o

(***************************************************************************)
(* C1: if the first reply line read by send begins, in any letter case,    *)
(* with "error", send fails with a RuntimeError (the ProtocolError of the  *)
(* specification) whose message is exactly that line, and the exchange     *)
(* reads no second line.                                                   *)
(***************************************************************************)
C1_ErrorFirstLine ==
  (io = "done" /\ heard # <<>> /\ IsErrorText(HeardText(1)))
    => /\ res = Exc("RuntimeError", HeardText(1))
       /\ Reads = 1

C1_Witness ==
  /\ io = "done"
  /\ Len(heard) = 1 /\ heard[1].raw = ErrLine
  /\ res = Exc("RuntimeError", ErrText)

(***************************************************************************)
(* C2: if the first reply line is the bare "ok" and no further line comes  *)
(* before the read timeout, send returns the empty payload and raises      *)
(* nothing, after two reads (the acknowledgement, then the read that timed *)
(* out); no exchange makes more than two reads and no read waits longer    *)
(* than the configured timeout, when it always gives up.                   *)
(***************************************************************************)
C2_AckThenSilence ==
  /\ (io = "done" /\ Len(heard) = 1 /\ HeardText(1) = OkToken /\ touts = 1)
       => res = Ret(<<>>) /\ Reads = 2
  /\ Reads <= 2
  /\ waited <= ReadTimeout
  /\ (io \in {"read1", "read2"} /\ waited = ReadTimeout) => ENABLED timeout

C2_Witness ==
  /\ io = "done"
  /\ Len(heard) = 1 /\ heard[1].raw = OkLine /\ touts = 1
  /\ res = Ret(<<>>)

(***************************************************************************)
(* C3: for a reply that is neither an error nor a timeout, send returns    *)
(* the first informative line: after a first line "ok" a second line is    *)
(* read and is the payload unless it is empty or "ok", when the payload is *)
(* empty; a first line that is neither "ok" nor error-prefixed is the      *)
(* payload and no second line is read.                                     *)
(***************************************************************************)
C3_FirstInformativeLine ==
  (io = "done" /\ touts = 0 /\ heard # <<>> /\ ~IsErrorText(HeardText(1)))
    => IF HeardText(1) = OkToken
         THEN /\ Len(heard) = 2
              /\ res = Ret(IF HeardText(2) \in {<<>>, OkToken} THEN <<>> ELSE HeardText(2))
         ELSE /\ Len(heard) = 1
              /\ res = Ret(HeardText(1))

C3_Witness ==
  /\ io = "done" /\ touts = 0
  /\ Len(heard) = 2 /\ heard[1].raw = OkLine /\ heard[2].raw = ProgLine
  /\ res = Ret(<<"M","2","7"," ","3","7">>)

(***************************************************************************)
(* C4: send on a driver on which no connection has been opened fails with  *)
(* RuntimeError("Not connected") (the ConnectionError of the               *)
(* specification), writes nothing to the wire, and leaves the handles and  *)
(* latest as they were.                                                    *)
(***************************************************************************)
C4_NotConnected ==
  [][(io = "write" /\ writer = "None")
       => /\ res' = Exc("RuntimeError", NotConnected)
          /\ io' = "done"
          /\ UNCHANGED <<reader, writer, sock, latest, wire>>]_vars

C4_Witness ==
  /\ Returned("send")
  /\ writer = "None"
  /\ result = Outcome("send", Exc("RuntimeError", NotConnected))
  /\ wire = <<>>

(***************************************************************************)
(* C5: after a read has timed out, the next send never returns a reply     *)
(* line the device sent for the earlier, timed-out command.  The driver    *)
(* does not hold this: a line that arrives after the timeout stays in the  *)
(* reader and is taken for the reply to the next command.                  *)
(***************************************************************************)
C5_NoStaleReply ==
  (io = "done" /\ res.kind = "ret" /\ res.val # <<>>) => ~heard[Len(heard)].late

(***************************************************************************)
(* C6: a timeout on the first reply line is caught inside send: send       *)
(* returns the empty payload and raises nothing, the command has been      *)
(* written once and not again, and the connection stays open.              *)
(***************************************************************************)
C6_FirstReadTimeout ==
  (io = "done" /\ heard = <<>> /\ touts = 1)
    => /\ res = Ret(<<>>)
       /\ reader = "set" /\ writer = "set" /\ sock = "open"
       /\ wire # <<>> /\ wire[Len(wire)] = strip(cmd) \o CRLF
       /\ op = "send" => Sent \in {<<PROGRESS \o CRLF>>, <<ELAPSED \o CRLF>>}

C6_Witness ==
  /\ op = "send" /\ io = "done"
  /\ heard = <<>> /\ touts = 1
  /\ res = Ret(<<>>)

(***************************************************************************)
(* C7: a poll whose four queries each get their well-formed reply ("ok"    *)
(* then the temperature line; the M27, M992 and M997 lines) returns the    *)
(* snapshot with temps T 205.3, Tset 210.0, B 60.1, Bset 60.0, progress    *)
(* 37, elapsed 00:28:43, state PRINTING and a non-empty stamp, and latest  *)
(* is that snapshot.                                                       *)
(***************************************************************************)
Dec(m, e) == [mant |-> m, exp |-> e]

C7_WellFormedPoll ==
  (Returned("poll") /\ trail = "wellformed")
    => /\ result.kind = "ret"
       /\ DOMAIN snapshot = {"temps", "progress", "elapsed", "state", "stamp"}
       /\ snapshot.temps = [T |-> Dec(2053, 1), Tset |-> Dec(210, 0),
                            B |-> Dec(601, 1), Bset |-> Dec(60, 0)]
       /\ snapshot.progress = 37
       /\ snapshot.elapsed = <<"0","0",":","2","8",":","4","3">>
       /\ snapshot.state = <<"P","R","I","N","T","I","N","G">>
       /\ snapshot.stamp # <<>>
       /\ latest = snapshot

C7_Witness ==
  /\ Returned("poll") /\ trail = "wellformed"
  /\ Cardinality(DOMAIN snapshot) = 5
  /\ latest = snapshot

(***************************************************************************)
(* C8: a poll changes latest at most when it returns; a poll whose four    *)
(* queries all time out returns the empty dict; and a poll that returns    *)
(* the empty dict leaves latest as it was, however often it is repeated.   *)
(***************************************************************************)
C8_FailedPollKeepsLatest ==
  [][op = "poll" =>
       IF op' = "poll" THEN latest' = latest
       ELSE /\ trail' = "silent" => (result'.kind = "ret" /\ DOMAIN snapshot' = {})
            /\ DOMAIN snapshot' = {} => latest' = latest]_vars

C8_Witness ==
  /\ Returned("poll") /\ trail = "silent"
  /\ result.kind = "ret" /\ DOMAIN snapshot = {}
  /\ DOMAIN latest # {}

(***************************************************************************)
(* C9: if the reply to line k of the source file is error-prefixed, upload *)
(* has sent M28, lines 1..k and no later line, then M29 once, and fails    *)
(* with a RuntimeError (the ProtocolError of the specification).           *)
(***************************************************************************)
ExpectBegin == <<"M","2","8"," ","a",".","g">> \o CRLF

ExpectLine(i) == <<"G", Digits[i + 1]>> \o CRLF

ExpectEnd == <<"M","2","9">> \o CRLF

C9_ErrorAtLineK ==
  (Returned("upload") /\ errline >= 1)
    => /\ result.kind = "exc" /\ result.type = "RuntimeError"
       /\ Sent = <<ExpectBegin>> \o [i \in 1 .. errline |-> ExpectLine(i)] \o <<ExpectEnd>>

C9_Witness ==
  /\ Returned("upload") /\ errline = 1 /\ Len(file.lines) = 2
  /\ result.kind = "exc"
  /\ Len(Sent) = 3

(***************************************************************************)
(* C10, as claimed: on every exit of upload on which a command was sent,   *)
(* M29 is the last command sent.                                           *)
(***************************************************************************)
C10_CloseOnEveryExit ==
  (Returned("upload") /\ Sent # <<>>) => Sent[Len(Sent)] = ExpectEnd

(***************************************************************************)
(* C10, amended: on every exit of upload on which a command was sent, M29  *)
(* is sent once and is the last command sent, except when the reply to M28 *)
(* is error-prefixed: then upload fails having sent M28 alone.             *)
(***************************************************************************)
C10_CloseUnlessOpenFailed ==
  (Returned("upload") /\ Sent # <<>>)
    => IF errline = 0
         THEN Sent = <<ExpectBegin>> /\ result.kind = "exc" /\ result.type = "RuntimeError"
         ELSE /\ Sent[Len(Sent)] = ExpectEnd
              /\ Cardinality({i \in DOMAIN Sent : Sent[i] = ExpectEnd}) = 1

C10_Witness ==
  /\ Returned("upload") /\ result.kind = "ret"
  /\ Len(Sent) = Len(file.lines) + 2 /\ Len(file.lines) >= 1
  /\ Sent[Len(Sent)] = ExpectEnd

(***************************************************************************)
(* C11: upload of a path that is not an existing file fails with           *)
(* FileNotFoundError (the NotFound of the specification) carrying the      *)
(* path, and has written no command: the wire is as it was before the      *)
(* call.                                                                   *)
(***************************************************************************)
C11_MissingFile ==
  (Returned("upload") /\ ~file.is_file)
    => /\ result = Outcome("upload", Exc("FileNotFoundError", file.name))
       /\ Len(wire) = mark
       /\ Sent = <<>>

C11_Witness ==
  /\ Returned("upload") /\ ~file.is_file
  /\ result.type = "FileNotFoundError"
  /\ writer = "set" /\ sock = "open"
  /\ Sent = <<>>

(***************************************************************************)
(* C12: with the shared driver used through the HTTP handlers, a handler   *)
(* writes a query, waits for its reply or sits in poll only while it holds *)
(* the lock, so at most one exchange is in flight on the driver and no     *)
(* handler writes a command while another handler awaits a reply.          *)
(***************************************************************************)
Driving(h) == pc[h] \in {"write", "read", "sleep"}

C12_OneExchangeInFlight ==
  /\ \A h \in Handlers : Driving(h) => lock = h
  /\ Cardinality({h \in Handlers : pc[h] = "read"}) <= 1
  /\ \A h, g \in Handlers : (pc[h] = "read" /\ g # h) => ~ENABLED write(g)

C12_Witness ==
  \E h, g \in Handlers :
    /\ pc[h] = "read" /\ lock = h
    /\ pc[g] = "acquire"
    /\ hq[h] = 2

(***************************************************************************)
(* C13: for any file name (of plain characters), what start_print has      *)
(* written is at every moment a prefix of the two lines "M23 <name>",      *)
(* "M24"; M24 is written only by the second send, which begins after the   *)
(* send of M23 has returned; and a start_print that returns has written    *)
(* exactly those two lines, as two separate writes.                        *)
(***************************************************************************)
ExpectSelect == <<"M", "2", "3", " ">> \o file.name \o CRLF

ExpectStart == <<"M", "2", "4">> \o CRLF

C13_SelectThenStart ==
  /\ op = "start" =>
       /\ Sent \in {<<>>, <<ExpectSelect>>, <<ExpectSelect, ExpectStart>>}
       /\ idx = 1 => Len(Sent) <= 1
       /\ idx = 2 => Sent # <<>>
       /\ Len(Sent) = 2 => idx = 2 /\ io # "write"
  /\ Returned("start") =>
       /\ Sent \in {<<>>, <<ExpectSelect>>, <<ExpectSelect, ExpectStart>>}
       /\ result.kind = "ret" => Sent = <<ExpectSelect, ExpectStart>>

C13_Witness ==
  /\ Returned("start") /\ result.kind = "ret"
  /\ file.name = <<"b">>
  /\ Sent = <<<<"M", "2", "3", " ", "b", "\r", "\n">>, <<"M", "2", "4", "\r", "\n">>>>

(***************************************************************************)
(* C14: start_print raises whenever the reply to one of its two commands   *)
(* is error-prefixed, as the first reply line or as the line after "ok",   *)
(* and does not send M24 when the error answers M23.  The driver does not  *)
(* hold this: an error line after "ok" is returned by send as a payload,   *)
(* which start_print drops.                                                *)
(***************************************************************************)
C14_ErrorRaises ==
  (Returned("start") /\ errline >= 1)
    => /\ result.kind = "exc"
       /\ errline = 1 => Sent = <<ExpectSelect>>

(***************************************************************************)
(* C15: a timeout on the reply to a state-mutating command is surfaced to  *)
(* the caller, distinguishable from an acknowledgement without payload:    *)
(* start_print, pause and abort raise when their commands got no reply at  *)
(* all.  The driver does not hold this: send turns the timeout into the    *)
(* empty payload and the helpers return None as they do after "ok".        *)
(***************************************************************************)
C15_SilenceSurfaced ==
  (op = "idle" /\ result.op \in {"start", "pause", "abort"} /\ trail = "silent")
    => result.kind = "exc"

(***************************************************************************)
(* C16: with the driver used as "async with driver": inside the block the  *)
(* connection opened at entry is open; once an operation of the block has  *)
(* raised, no further operation begins; whenever the block is left, close  *)
(* closes that connection, and the exception the block ended with, if any, *)
(* leaves the with statement.                                              *)
(***************************************************************************)
C16_ScopedRelease ==
  [][/\ scope' = "in" => sock' = "open" /\ writer' = "set"
     /\ (scope = "in" /\ op = "idle" /\ result.kind = "exc")
          => op' = "idle" /\ nops' = nops
     /\ (scope = "in" /\ scope' = "out")
          => /\ sock = "open" /\ sock' = "closed"
             /\ left' = IF result.kind = "exc"
                          THEN Exc(result.type, result.val)
                          ELSE Ret(<<>>)]_vars

C16_Witness ==
  /\ scope = "out" /\ sock = "closed"
  /\ left.kind = "exc" /\ left.type = "RuntimeError"
  /\ result.op = "poll" /\ result.kind = "exc"

(***************************************************************************)
(* C17: in every poll, the step that follows the return of the n-th query  *)
(* puts the n-th field (temps, progress, elapsed, state) into the dict if  *)
(* and only if the payload of that query is the line of that query's       *)
(* shape, and leaves the other three fields as they were; a payload that   *)
(* does not match raises nothing; and the dict poll returns has a stamp if *)
(* and only if it has one of the four fields.                              *)
(***************************************************************************)
Fields == <<"temps", "progress", "elapsed", "state">>

\* of the lines the device sends, the one that has the shape of query n
Shaped == <<TempLine, ProgLine, TimeLine, StateLine>>

Fits(n, payload) == payload = SubSeq(Shaped[n], 1, Len(Shaped[n]) - 2)

C17_FieldIffOwnMatch ==
  [][(op = "poll" /\ io = "done" /\ res.kind = "ret" /\ q' # q) =>
       /\ (Fields[q] \in DOMAIN (IF op' = "poll" THEN fresh' ELSE snapshot'))
            <=> Fits(q, res.val)
       /\ \A n \in DOMAIN Fields \ {q} :
            (Fields[n] \in DOMAIN (IF op' = "poll" THEN fresh' ELSE snapshot'))
              <=> (Fields[n] \in DOMAIN fresh)
       /\ op' = "poll" => "stamp" \notin DOMAIN fresh'
       /\ op' # "poll" =>
            /\ result'.kind = "ret"
            /\ ("stamp" \in DOMAIN snapshot')
                 <=> (\E n \in DOMAIN Fields : Fields[n] \in DOMAIN snapshot')]_vars

C17_Witness ==
  /\ Returned("poll") /\ result.kind = "ret"
  /\ DOMAIN snapshot = {"progress", "state", "stamp"}
  /\ trail = "mixed"

(***************************************************************************)
(* C18: over any sequence of connect, close, send, poll, upload,           *)
(* start_print, pause and abort, latest changes only in the step in which  *)
(* a poll returns a non-empty snapshot, and becomes that snapshot; a       *)
(* non-empty latest never becomes empty; a non-empty latest has a stamp    *)
(* and at least one of temps, progress, elapsed, state.                    *)
(***************************************************************************)
C18_LatestOnlyByPoll ==
  [][/\ latest' # latest =>
          /\ op = "poll" /\ op' = "idle"
          /\ result'.kind = "ret"
          /\ DOMAIN snapshot' # {}
          /\ latest' = snapshot'
     /\ DOMAIN latest # {} => DOMAIN latest' # {}
     /\ DOMAIN latest' # {} =>
          /\ "stamp" \in DOMAIN latest'
          /\ \E n \in DOMAIN Fields : Fields[n] \in DOMAIN latest']_vars

C18_Witness ==
  /\ Returned("start") /\ sock = "closed"
  /\ DOMAIN latest = {"temps", "stamp"}

(***************************************************************************)
(* C19: the pacing delay of poll is not spent under the lock: no handler   *)
(* sleeps in poll while it holds the lock, and a handler waiting for the   *)
(* lock can take it while another sleeps.  The server does not hold this:  *)
(* poll sleeps before it returns, inside "async with lock".                *)
(***************************************************************************)
C19_DelayOutsideLock ==
  \A h \in Handlers :
    pc[h] = "sleep" =>
      /\ lock # h
      /\ \A g \in Handlers : pc[g] = "acquire" => ENABLED acquire(g)

(***************************************************************************)
(* C20: when the exchange of M28 ends with an error-prefixed line, read as *)
(* the first reply line or as the line after "ok", upload fails in its     *)
(* next step with RuntimeError (the ProtocolError of the specification)    *)
(* carrying that line, having written M28 alone: no line of the file.      *)
(***************************************************************************)
C20_OpenFileError ==
  [][(/\ op = "upload" /\ phase = "begin" /\ io = "done"
      /\ touts = 0 /\ heard # <<>>
      /\ IsErrorText(HeardText(Len(heard)))
      /\ <<op, phase>>' # <<op, phase>>)
       => /\ op' = "idle"
          /\ result' = Outcome("upload", Exc("RuntimeError", HeardText(Len(heard))))
          /\ Sent' = <<ExpectBegin>>]_vars

C20_Witness ==
  /\ op = "upload" /\ phase = "begin" /\ io = "done"
  /\ Len(file.lines) = 2
  /\ Len(heard) = 2 /\ heard[1].raw = OkLine /\ heard[2].raw = ErrLine
  /\ res = Ret(ErrText)

(***************************************************************************)
(* C21: close raises nothing and changes nothing but the transport, which  *)
(* it closes when open and leaves as it is when never opened or already    *)
(* closed; a send whose write comes after close and before a new connect   *)
(* puts nothing on the wire and fails with a connection failure (the       *)
(* ConnectionResetError of drain when a connection was closed, "Not        *)
(* connected" when there never was one); a send whose write comes on an    *)
(* open connection, first or reopened, writes its command.                 *)
(***************************************************************************)
\* the driver's connection failures: the guard of _send_raw / _read_raw, and
\* drain() on a transport that close() has closed
ConnectionFailures ==
  {Exc("RuntimeError", NotConnected), Exc("ConnectionResetError", ConnectionLost)}

C21_ClosedState ==
  [][/\ (/\ op = "idle" /\ op' = "idle" /\ result'.op = "close"
         /\ (result' # result \/ sock' # "open")) =>
          /\ result'.kind = "ret"
          /\ sock' = IF sock = "open" THEN "closed" ELSE sock
          /\ UNCHANGED <<reader, writer, latest, wire>>
     /\ (io = "write" /\ sock # "open") =>
          /\ wire' = wire
          /\ io' # io =>
               /\ io' = "done"
               /\ res' \in ConnectionFailures
               /\ sock = "closed" => res'.type = "ConnectionResetError"
     /\ (io = "write" /\ sock = "open" /\ io' # io) =>
          /\ wire' = Append(wire, WireText(cmd))
          /\ io' = "read1"]_vars

C21_Witness ==
  /\ op = "send" /\ io = "done"
  /\ sock = "closed" /\ writer = "set"
  /\ res = Exc("ConnectionResetError", ConnectionLost)
  /\ wire = <<>>

(***************************************************************************)
(* C22: while a handler's poll exchanges a query with the device, the      *)
(* connection of the shared driver goes to the address the driver is       *)
(* bound to.  The status handler assigns host and port without connecting  *)
(* again, so its poll uses the connection that lifespan opened to the      *)
(* configured address.                                                     *)
(***************************************************************************)
\* a handler is between the write of a query and the end of its read
Exchanging(h) == pc[h] \in {"write", "read"}

C22_PeerIsBound ==
  \A h \in Handlers : Exchanging(h) => sock = "open" /\ peer = bound

(***************************************************************************)
(* C23: when the first reply line of query number q of a poll is           *)
(* error-prefixed, poll raises the RuntimeError carrying that line (the    *)
(* ProtocolError of the specification) having sent queries 1..q in order   *)
(* and no later one, nothing of what this poll parsed is returned or       *)
(* stored, and latest is what it was when the poll began.                  *)
(***************************************************************************)
C23_ErrorEndsPoll ==
  [][/\ (op = "poll" /\ op' = "poll") => latest' = latest
     /\ (/\ op = "poll" /\ io = "done" /\ q' # q
         /\ heard # <<>> /\ IsErrorText(HeardText(1))) =>
          /\ op' = "idle"
          /\ result' = Outcome("poll", Exc("RuntimeError", HeardText(1)))
          /\ wire' = wire
          /\ Sent = [i \in 1 .. q |-> WireText(Queries[i])]
          /\ fresh' = EmptyDict /\ DOMAIN snapshot' = {}
          /\ latest' = latest]_vars

C23_Witness ==
  /\ op = "poll" /\ io = "done" /\ q = 2
  /\ Len(heard) = 1 /\ heard[1].raw = ErrLine
  /\ res = Exc("RuntimeError", ErrText)
  /\ "temps" \in DOMAIN fresh
  /\ DOMAIN latest # {}

====
